---- MODULE Spec2Model ----
(***************************************************************************)
(* A model of weather-server.go: the /weather handler (ServeHTTP), the     *)
(* two-step upstream lookup (GetForecast, fetchForecast), the period       *)
(* selection, the unit normalisation and the temperature bucketing.        *)
(*                                                                         *)
(* Text (query parameters, period names, the points URL) is a sequence of  *)
(* one-character strings.  A float64 is a record [k, neg, d, dp]:          *)
(* k = "num" is the number of sign neg and magnitude 0.d1d2...dn * 10^dp   *)
(* that the float64 is equal to (every finite float64 is a finite          *)
(* decimal; zero has no digits and keeps its sign), k = "inf" is the       *)
(* infinity of sign neg, k = "nan" is NaN.  strconv.ParseFloat and fmt's   *)
(* %.4f are modelled by what strconv does: readFloat's syntax (sign,       *)
(* decimal or hexadecimal mantissa, underscores, exponent), the rounding   *)
(* of the number read to the nearest float64 (decimal.floatBits), and the  *)
(* rounding of the float64's own digits to four places.                    *)
(***************************************************************************)
EXTENDS Integers, Sequences, FiniteSets, TLC


\* ------------------------------------------------------------------ bounds
NumRequests == 2
MaxPeriods == 3
MaxAbsTemp == 40

\* ------------------------------------------------------- program constants
StatusOK == 200
StatusBadRequest == 400
StatusMethodNotAllowed == 405
StatusInternalServerError == 500
\* getTempType's thresholds 89.5 and 60.8, in ten-thousandths of a degree
HotMin == 895000
ModerateMin == 608000

\* -------------------------------------------------------------------- text
UpperCase == <<"A","B","C","D","E","F","G","H","I","J","K","L","M",
               "N","O","P","Q","R","S","T","U","V","W","X","Y","Z">>
LowerCase == <<"a","b","c","d","e","f","g","h","i","j","k","l","m",
               "n","o","p","q","r","s","t","u","v","w","x","y","z">>
Digits == <<"0","1","2","3","4","5","6","7","8","9">>
HexLetters == <<"a","b","c","d","e","f">>

\* strings.ToLower, one character
ToLowerCh(c) ==
    IF \E i \in 1..26 : UpperCase[i] = c
    THEN LowerCase[CHOOSE i \in 1..26 : UpperCase[i] = c]
    ELSE c

\* strings.ToLower
ToLower(s) == [i \in 1..Len(s) |-> ToLowerCh(s[i])]

\* strings.Contains
Contains(s, sub) ==
    \E i \in 0..(Len(s) - Len(sub)) : SubSeq(s, i + 1, i + Len(sub)) = sub

IsDigit(c) == c \in {"0","1","2","3","4","5","6","7","8","9"}
DigitVal(c) == (CHOOSE i \in 1..10 : Digits[i] = c) - 1
IsHexLetter(c) == ToLowerCh(c) \in {"a","b","c","d","e","f"}
HexLetterVal(c) == 9 + (CHOOSE i \in 1..6 : HexLetters[i] = ToLowerCh(c))

\* ------------------------------------------------- strconv: type decimal
\* A decimal is the number 0.d1d2...dn * 10^dp, its digits d without a
\* leading or a trailing zero; zero has no digits.  Every float64 is such a
\* number, and a finite float64 is held as the decimal it is equal to.
Dec(d, dp) == [d |-> d, dp |-> dp]
DecZero == Dec(<<>>, 0)
IsZero(x) == Len(x.d) = 0

\* the decimal of digits d and point dp, leading and trailing zeros dropped
FirstNonZero(d) ==
    CHOOSE i \in 1..Len(d) : d[i] /= 0 /\ \A j \in 1..(i - 1) : d[j] = 0
LastNonZero(d) ==
    CHOOSE i \in 1..Len(d) : d[i] /= 0 /\ \A j \in (i + 1)..Len(d) : d[j] = 0
Cut(d, dp, a, b) == Dec([i \in 1..(b - a + 1) |-> d[i + a - 1]], dp - (a - 1))
Trim(d, dp) ==
    IF \A i \in 1..Len(d) : d[i] = 0 THEN DecZero
    ELSE Cut(d, dp, FirstNonZero(d), LastNonZero(d))

\* leftShift by one bit: twice x (x not zero).  A digit's double takes at
\* most the carry 1 of the digit after it.
Double(x) ==
    LET n == Len(x.d)
        c == IF x.d[1] >= 5 THEN 1 ELSE 0
        m == IF x.d[n] = 5 THEN n - 1 ELSE n
    IN  Dec([i \in 1..(m + c) |->
               IF i = c THEN 1
               ELSE ((2 * x.d[i - c]) % 10)
                    + (IF i - c < n /\ x.d[i - c + 1] >= 5 THEN 1 ELSE 0)],
            x.dp + c)

\* rightShift by one bit: half x (x not zero).  A digit's half takes the
\* remainder of the digit before it.
Halve(x) ==
    LET n == Len(x.d)
        lead == IF x.d[1] = 1 THEN 1 ELSE 0
        tail == IF x.d[n] % 2 = 1 THEN 1 ELSE 0
    IN  Dec([i \in 1..(n - lead + tail) |->
               ((IF i + lead > 1 /\ x.d[i + lead - 1] % 2 = 1 THEN 10 ELSE 0)
                + (IF i + lead <= n THEN x.d[i + lead] ELSE 0)) \div 2],
            x.dp - lead)

\* decimal.Shift: x * 2^k
RECURSIVE Shift(_, _)
Shift(x, k) ==
    IF IsZero(x) \/ k = 0 THEN x
    ELSE IF k = 1 THEN Double(x)
    ELSE IF k = -1 THEN Halve(x)
    ELSE Shift(Shift(x, k \div 2), k - (k \div 2))

\* shouldRoundUp(a, nd): rounding a to nd digits rounds up (nearest, an exact
\* half to even)
shouldRoundUp(a, nd) ==
    IF nd < 0 \/ nd >= Len(a.d) THEN FALSE
    ELSE IF a.d[nd + 1] = 5 /\ nd + 1 = Len(a.d)
    THEN nd > 0 /\ a.d[nd] % 2 = 1
    ELSE a.d[nd + 1] >= 5

\* decimal.RoundDown, decimal.RoundUp, decimal.Round
RoundDown(a, nd) ==
    IF nd < 0 \/ nd >= Len(a.d) THEN a
    ELSE Trim(SubSeq(a.d, 1, nd), a.dp)

RoundUp(a, nd) ==
    IF nd < 0 \/ nd >= Len(a.d) THEN a
    ELSE IF \A i \in 1..nd : a.d[i] = 9 THEN Dec(<<1>>, a.dp + 1)
    ELSE LET m == CHOOSE i \in 1..nd : a.d[i] < 9 /\ \A j \in (i + 1)..nd : a.d[j] = 9
         IN  Dec([i \in 1..m |-> IF i = m THEN a.d[i] + 1 ELSE a.d[i]], a.dp)

Round(a, nd) ==
    IF nd < 0 \/ nd >= Len(a.d) THEN a
    ELSE IF shouldRoundUp(a, nd) THEN RoundUp(a, nd)
    ELSE RoundDown(a, nd)

\* decimal.RoundedInteger: a rounded to an integer, as a decimal
RoundedInteger(a) == IF a.dp < 0 THEN DecZero ELSE Round(a, a.dp)

\* --------------------------------------------------------------- float64
NaN == [k |-> "nan", neg |-> FALSE, d |-> <<>>, dp |-> 0]
Inf(neg) == [k |-> "inf", neg |-> neg, d |-> <<>>, dp |-> 0]
Finite(neg, x) == [k |-> "num", neg |-> neg, d |-> x.d, dp |-> x.dp]

IsNaN(x) == x.k = "nan"
IsFinite(x) == x.k = "num"

\* the decimal digits of a natural number
RECURSIVE IntDigits(_)
IntDigits(n) == IF n = 0 THEN <<>> ELSE Append(IntDigits(n \div 10), n % 10)

\* float64(n) of an integer n
FromInt(n) ==
    IF n < 0 THEN Finite(TRUE, Trim(IntDigits(0 - n), Len(IntDigits(0 - n))))
    ELSE Finite(FALSE, Trim(IntDigits(n), Len(IntDigits(n))))

\* the i-th digit of a decimal, 0 after the last
DecDigit(a, i) == IF i <= Len(a.d) THEN a.d[i] ELSE 0

\* a < b for decimals
DecLess(a, b) ==
    IF IsZero(b) THEN FALSE
    ELSE IF IsZero(a) THEN TRUE
    ELSE IF a.dp /= b.dp THEN a.dp < b.dp
    ELSE \E i \in 1..Len(b.d) :
           /\ DecDigit(a, i) < b.d[i]
           /\ \A j \in 1..(i - 1) : DecDigit(a, j) = b.d[j]

\* Go's x < y on float64: false when either side is NaN, and for -0 < 0
FLess(x, y) ==
    CASE IsNaN(x) \/ IsNaN(y) -> FALSE
      [] x.k = "inf" /\ y.k = "inf" -> x.neg /\ ~y.neg
      [] x.k = "inf" -> x.neg
      [] y.k = "inf" -> ~y.neg
      [] x.neg /\ ~y.neg -> ~(IsZero(x) /\ IsZero(y))
      [] ~x.neg /\ y.neg -> FALSE
      [] x.neg /\ y.neg -> DecLess(y, x)
      [] OTHER -> DecLess(x, y)

\* Go's x > y
FGreater(x, y) == FLess(y, x)

\* ---------------------------------- strconv: decimal.floatBits for float64
\* The float64 nearest to a decimal x >= 0 (an exact half to even), as a
\* decimal, or overflow.
powtab == <<1, 3, 6, 9, 13, 16, 19, 23, 26>>
ShiftStep(dp) == IF dp >= 9 THEN 27 ELSE powtab[dp + 1]

Overflow == [overflow |-> TRUE, x |-> DecZero]
Exact(x) == [overflow |-> FALSE, x |-> x]

\* 2^53
Two53 == Dec(<<9,0,0,7,1,9,9,2,5,4,7,4,0,9,9,2>>, 16)

\* the loops that scale x by powers of two into [0.5, 1): x = result * 2^exp
RECURSIVE ScaleDown(_, _)
ScaleDown(x, exp) ==
    IF x.dp > 0
    THEN ScaleDown(Shift(x, 0 - ShiftStep(x.dp)), exp + ShiftStep(x.dp))
    ELSE [x |-> x, exp |-> exp]

RECURSIVE ScaleUp(_, _)
ScaleUp(x, exp) ==
    IF x.dp < 0 \/ (x.dp = 0 /\ x.d[1] < 5)
    THEN ScaleUp(Shift(x, ShiftStep(0 - x.dp)), exp - ShiftStep(0 - x.dp))
    ELSE [x |-> x, exp |-> exp]

\* the value mant * 2^(exp-52) of the rounded mantissa; a mantissa rounded
\* up to 2^53 moves to the next exponent
MantissaValue(mant, exp) ==
    IF mant = Two53 /\ exp + 1 > 1023 THEN Overflow
    ELSE Exact(Shift(mant, exp - 52))

\* x * 2^(exp+1), x in [0.5, 1) (below for a denormal): 53 bits of mantissa
ExtractBits(x, exp) == MantissaValue(RoundedInteger(Shift(x, 53)), exp)

\* x * 2^exp, x in [0.5, 1): the exponent limits -1022 and 1023 of [1, 2)
ExponentRange(x, exp) ==
    IF exp - 1 > 1023 THEN Overflow
    ELSE ExtractBits(Shift(x, IF exp - 1 < -1022 THEN (exp - 1) + 1022 ELSE 0),
                     IF exp - 1 < -1022 THEN -1022 ELSE exp - 1)

ScaledUp(s) == ExponentRange(s.x, s.exp)
ScaledDown(s) == ScaledUp(ScaleUp(s.x, s.exp))

floatBits(x) ==
    IF IsZero(x) THEN Exact(DecZero)
    ELSE IF x.dp > 310 THEN Overflow
    ELSE IF x.dp < -330 THEN Exact(DecZero)
    ELSE ScaledDown(ScaleDown(x, 0))

\* ------------------------------------------------------ strconv: special
\* strconv's commonPrefixLenIgnoreCase(s, prefix), prefix in lower case
RECURSIVE PrefixFrom(_, _, _)
PrefixFrom(s, prefix, i) ==
    IF i <= Len(s) /\ i <= Len(prefix) /\ ToLowerCh(s[i]) = prefix[i]
    THEN 1 + PrefixFrom(s, prefix, i + 1)
    ELSE 0
CommonPrefixLenIgnoreCase(s, prefix) == PrefixFrom(s, prefix, 1)

\* strconv's special: [+-]?inf, [+-]?infinity, nan, in any case
\* [ok, n (characters used), val]
NoSpecial == [ok |-> FALSE, n |-> 0, val |-> NaN]

\* p characters of rest agree with "infinity"
SpecialInf(neg, nsign, p) ==
    IF p = 8 THEN [ok |-> TRUE, n |-> nsign + 8, val |-> Inf(neg)]
    ELSE IF p >= 3 THEN [ok |-> TRUE, n |-> nsign + 3, val |-> Inf(neg)]
    ELSE NoSpecial

Special(s) ==
    IF Len(s) = 0 THEN NoSpecial
    ELSE IF s[1] \in {"+", "-"}
    THEN SpecialInf(s[1] = "-", 1,
                    CommonPrefixLenIgnoreCase(SubSeq(s, 2, Len(s)),
                                              <<"i","n","f","i","n","i","t","y">>))
    ELSE IF s[1] \in {"i", "I"}
    THEN SpecialInf(FALSE, 0,
                    CommonPrefixLenIgnoreCase(s, <<"i","n","f","i","n","i","t","y">>))
    ELSE IF s[1] \in {"n", "N"} /\ CommonPrefixLenIgnoreCase(s, <<"n","a","n">>) = 3
    THEN [ok |-> TRUE, n |-> 3, val |-> NaN]
    ELSE NoSpecial

\* ---------------------------------------------------- strconv: readFloat
\* underscoreOK: an underscore stands only between two digits, or between
\* a base prefix and a digit
SignLen(s) == IF Len(s) >= 1 /\ s[1] \in {"+", "-"} THEN 1 ELSE 0

BasePrefix(s, off) ==
    /\ Len(s) >= off + 2
    /\ s[off + 1] = "0"
    /\ ToLowerCh(s[off + 2]) \in {"b", "o", "x"}

IsDigitOf(c, hex) == IsDigit(c) \/ (hex /\ IsHexLetter(c))

UnderscoresFrom(s, start, prefix, hex) ==
    \A j \in start..Len(s) :
      s[j] = "_" =>
        /\ (j = start /\ prefix) \/ (j > start /\ IsDigitOf(s[j - 1], hex))
        /\ j < Len(s) /\ IsDigitOf(s[j + 1], hex)

UnderscoresAfter(s, off, prefix) ==
    UnderscoresFrom(s, IF prefix THEN off + 3 ELSE off + 1, prefix,
                    prefix /\ ToLowerCh(s[off + 2]) = "x")

underscoreOK(s) == UnderscoresAfter(s, SignLen(s), BasePrefix(s, SignLen(s)))

\* the mantissa loop of readFloat from position i: m holds the digits read
\* after the leading zeros (digits), the place of the point (dp), and
\* whether a point, a digit, an underscore was seen; the result holds the
\* position where the loop stopped
RECURSIVE ReadMantissa(_, _, _, _)
ReadMantissa(s, i, hex, m) ==
    IF i > Len(s) THEN [m EXCEPT !.i = i]
    ELSE IF s[i] = "_"
    THEN ReadMantissa(s, i + 1, hex, [m EXCEPT !.underscores = TRUE])
    ELSE IF s[i] = "."
    THEN (IF m.sawdot THEN [m EXCEPT !.i = i]
          ELSE ReadMantissa(s, i + 1, hex,
                            [m EXCEPT !.sawdot = TRUE, !.dp = Len(m.digits)]))
    ELSE IF IsDigit(s[i])
    THEN (IF s[i] = "0" /\ Len(m.digits) = 0
          THEN ReadMantissa(s, i + 1, hex,
                            [m EXCEPT !.sawdigits = TRUE, !.dp = @ - 1])
          ELSE ReadMantissa(s, i + 1, hex,
                            [m EXCEPT !.sawdigits = TRUE,
                                      !.digits = Append(@, DigitVal(s[i]))]))
    ELSE IF hex /\ IsHexLetter(s[i])
    THEN ReadMantissa(s, i + 1, hex,
                      [m EXCEPT !.sawdigits = TRUE,
                                !.digits = Append(@, HexLetterVal(s[i]))])
    ELSE [m EXCEPT !.i = i]

NoMantissa ==
    [digits |-> <<>>, dp |-> 0, sawdot |-> FALSE, sawdigits |-> FALSE,
     underscores |-> FALSE, i |-> 0]

\* the exponent of readFloat: [ok, e, underscores, i], i the position
\* where reading stopped
NoExponent(m) ==
    [ok |-> TRUE, e |-> 0, underscores |-> m.underscores, i |-> m.i]
BadExponent == [ok |-> FALSE, e |-> 0, underscores |-> FALSE, i |-> 0]

\* the loop over the digits and underscores of the exponent from position i
RECURSIVE ReadExpDigits(_, _, _)
ReadExpDigits(s, i, x) ==
    IF i > Len(s) THEN [x EXCEPT !.i = i]
    ELSE IF s[i] = "_"
    THEN ReadExpDigits(s, i + 1, [x EXCEPT !.underscores = TRUE])
    ELSE IF IsDigit(s[i])
    THEN ReadExpDigits(s, i + 1,
                       [x EXCEPT !.e = IF @ < 10000 THEN @ * 10 + DigitVal(s[i])
                                       ELSE @])
    ELSE [x EXCEPT !.i = i]

\* e * esign
SignedExp(x, esign) == [x EXCEPT !.e = esign * @]

\* a digit must stand at position j, where the digits of the exponent start
ReadExpFrom(s, m, esign, j) ==
    IF j > Len(s) \/ ~IsDigit(s[j]) THEN BadExponent
    ELSE SignedExp(ReadExpDigits(s, j, NoExponent(m)), esign)

\* after the letter of the exponent: an optional sign at position i
ReadExpSign(s, m, i) ==
    IF i > Len(s) THEN BadExponent
    ELSE ReadExpFrom(s, m, IF s[i] = "-" THEN -1 ELSE 1,
                     IF s[i] \in {"+", "-"} THEN i + 1 ELSE i)

\* after the mantissa: the optional exponent, which a hexadecimal number
\* must have
ReadExp(s, hex, m) ==
    IF m.i <= Len(s) /\ ToLowerCh(s[m.i]) = (IF hex THEN "p" ELSE "e")
    THEN ReadExpSign(s, m, m.i + 1)
    ELSE IF hex THEN BadExponent
    ELSE NoExponent(m)

\* what readFloat returns: ok, the sign, the base, the digits of the
\* mantissa, the number dp of them before the point, the exponent e (of
\* ten, of two for a hexadecimal number), and n, the number of characters
\* used
NotRead == [ok |-> FALSE, neg |-> FALSE, hex |-> FALSE, digits |-> <<>>,
            dp |-> 0, e |-> 0, n |-> 0]

ReadEnd(s, neg, hex, m, x) ==
    IF ~m.sawdigits \/ ~x.ok THEN NotRead
    ELSE IF x.underscores /\ ~underscoreOK(SubSeq(s, 1, x.i - 1)) THEN NotRead
    ELSE [ok |-> TRUE, neg |-> neg, hex |-> hex, digits |-> m.digits,
          dp |-> IF m.sawdot THEN m.dp ELSE Len(m.digits),
          e |-> x.e, n |-> x.i - 1]

ReadAfterMantissa(s, neg, hex, m) == ReadEnd(s, neg, hex, m, ReadExp(s, hex, m))

\* the base prefix 0x or 0X at position i, with something after it
HexPrefix(s, i) == i + 2 <= Len(s) /\ s[i] = "0" /\ ToLowerCh(s[i + 1]) = "x"

ReadBase(s, neg, i, hex) ==
    ReadAfterMantissa(s, neg, hex,
                      ReadMantissa(s, IF hex THEN i + 2 ELSE i, hex, NoMantissa))

ReadSign(s, neg, i) == ReadBase(s, neg, i, HexPrefix(s, i))

readFloat(s) ==
    IF Len(s) = 0 THEN NotRead
    ELSE ReadSign(s, s[1] = "-", IF s[1] \in {"+", "-"} THEN 2 ELSE 1)

\* ------------------------------------------------------- strconv: atof64
\* the number a hexadecimal mantissa spells when the point stands before
\* its first digit: 0.h1h2...hn in base 16
RECURSIVE HexFraction(_, _)
HexFraction(digits, i) ==
    IF i > Len(digits) THEN DecZero
    ELSE LET rest == HexFraction(digits, i + 1)
             int == IntDigits(digits[i])
         IN  Shift(Trim(int \o [j \in 1..(0 - rest.dp) |-> 0] \o rest.d, Len(int)),
                   -4)

\* a binary exponent beyond these limits gives zero or overflow whatever
\* the mantissa
ClampExp(e) == IF e > 1100 THEN 1100 ELSE IF e < -1100 THEN -1100 ELSE e

\* the number that was read, exactly
ReadValue(r) ==
    IF r.hex
    THEN Shift(HexFraction(r.digits, 1), ClampExp(4 * r.dp + r.e))
    ELSE Trim(r.digits, r.dp + r.e)

\* [err, val]: the float64 of the sign and the rounded number; a number
\* beyond the float64 range is an error (ErrRange) and an infinity
Converted(neg, f) ==
    IF f.overflow THEN [err |-> TRUE, val |-> Inf(neg)]
    ELSE [err |-> FALSE, val |-> Finite(neg, f.x)]

BadFloat == [err |-> TRUE, val |-> FromInt(0)]

Atof(s, sp, r) ==
    IF sp.ok
    THEN (IF sp.n = Len(s) THEN [err |-> FALSE, val |-> sp.val] ELSE BadFloat)
    ELSE IF ~r.ok \/ r.n /= Len(s) THEN BadFloat
    ELSE Converted(r.neg, floatBits(ReadValue(r)))

\* strconv's atof64 with the test of ParseFloat that all of s was used:
\* [err, val]
atof64(s) == Atof(s, Special(s), readFloat(s))

\* --------------------------------------------------------- parameter texts
\* the texts that the runs give as lat and lon
TxtEmpty == <<>>
TxtAbc == <<"a","b","c">>
TxtNaN == <<"N","a","N">>
TxtPlusInf == <<"+","I","n","f">>
TxtMinusInf == <<"-","i","n","f">>
TxtHuge == <<"1","e","9","9","9">>
Txt1e309 == <<"1","e","3","0","9">>
Txt1e10 == <<"1","e","1","0">>
Txt40 == <<"4","0",".","7","1","2","8">>
TxtTie40 == <<"4","0",".","7","1","2","8","5">>
TxtUnderscore10 == <<"1","_","0">>
TxtHex16 == <<"0","x","1","p","4">>
TxtMinusZero == <<"-","0">>
Txt90 == <<"9","0">>
TxtMinus90 == <<"-","9","0",".","0">>
Txt90Plus == <<"9","0",".","0","0","0","1">>
Txt90Round == <<"9","0",".","0","0","0","0","0","0","0","0","0","0","0","0","0","0","0","0","1">>
Txt9e1 == <<"9","e","1">>
Txt91 == <<"9","1">>
TxtMinus91 == <<"-","9","1">>
Txt10 == <<"1","0">>
Txt20 == <<"2","0">>
TxtMinus74 == <<"-","7","4",".","0","0","6","0">>
TxtTieMinus74 == <<"-","7","4",".","0","0","6","0","5">>
Txt180 == <<"1","8","0">>
TxtMinus180 == <<"-","1","8","0">>
Txt181 == <<"1","8","1">>
TxtMinus180Plus == <<"-","1","8","0",".","5">>

LatTexts == {TxtEmpty, TxtAbc, TxtNaN, TxtPlusInf, TxtMinusInf, TxtHuge,
             Txt1e309, Txt1e10, Txt40, TxtTie40, TxtUnderscore10, TxtHex16,
             TxtMinusZero, Txt90, TxtMinus90, Txt90Plus, Txt90Round, Txt9e1,
             Txt91, TxtMinus91}
LonTexts == {TxtEmpty, TxtAbc, TxtNaN, TxtPlusInf, TxtHuge, Txt1e10,
             TxtMinus74, TxtTieMinus74, Txt180, TxtMinus180, Txt181,
             TxtMinus180Plus}

\* atof64 of these texts, converted once
ParsedTexts == [s \in LatTexts \cup LonTexts \cup {Txt10, Txt20} |-> atof64(s)]

\* strconv.ParseFloat(s, 64): [err, val]
ParseFloat(s) == IF s \in DOMAIN ParsedTexts THEN ParsedTexts[s] ELSE atof64(s)

\* fmt's %.4f of a float64: strconv's fmtF of the digits rounded to prec
\* places
fmtF(neg, a, prec) ==
    (IF neg THEN <<"-">> ELSE <<>>)
    \o (IF a.dp > 0
        THEN [m \in 1..a.dp |-> IF m <= Len(a.d) THEN Digits[a.d[m] + 1] ELSE "0"]
        ELSE <<"0">>)
    \o <<".">>
    \o [i \in 1..prec |->
          IF a.dp + i >= 1 /\ a.dp + i <= Len(a.d)
          THEN Digits[a.d[a.dp + i] + 1] ELSE "0"]

Fmt4(x) ==
    CASE x.k = "nan" -> <<"N","a","N">>
      [] x.k = "inf" -> <<IF x.neg THEN "-" ELSE "+", "I", "n", "f">>
      [] OTHER -> fmtF(x.neg, Round(Dec(x.d, x.dp), x.dp + 4), 4)

\* --------------------------------------------------------------- responses
NoBody == [none |-> TRUE]

\* WeatherHandler.sendError
sendError(statusCode, error, message) ==
    [status |-> statusCode, error |-> error, message |-> message, body |-> NoBody]

\* ------------------------------------------------------------ fetchForecast
\* int(x) of a quotient n/d: Go truncates toward zero
TruncDiv(n, d) == IF n >= 0 THEN n \div d ELSE 0 - ((0 - n) \div d)

\* float64(temperature), in ten-thousandths of a degree
ToFloat(t) == t * 10000

\* the loop of fetchForecast: i is the index scanned, today the index that
\* todayPeriod points to (0 for nil); the result is todayPeriod after it
RECURSIVE ScanPeriods(_, _, _)
ScanPeriods(periods, i, today) ==
    IF i > Len(periods) THEN today
    ELSE IF Contains(ToLower(periods[i].name), <<"t","o","d","a","y">>)
            \/ (today = 0 /\ periods[i].isDaytime)
         THEN i
         ELSE ScanPeriods(periods, i + 1, today)

\* SelectPeriod without the fallback to the first period
SelectPeriodNoFallback(periods) == ScanPeriods(periods, 1, 0)

\* the index of the period fetchForecast builds the response from, 0 for none
SelectPeriod(periods) ==
    LET today == ScanPeriods(periods, 1, 0)
    IN  IF today = 0 /\ Len(periods) > 0 THEN 1 ELSE today

\* the temperature of the response: int(float64(temperature)*9/5 + 32) for "C"
NormalizeTemp(period) ==
    IF period.temperatureUnit = "C"
    THEN TruncDiv(period.temperature * 9 + 160, 5)
    ELSE period.temperature

\* getTempType with exclusive boundaries
getTempTypeExclusive(temp) ==
    CASE temp > HotMin -> "hot"
      [] temp > ModerateMin -> "moderate"
      [] OTHER -> "cold"

\* getTempType, temp in ten-thousandths of a degree
getTempType(temp) ==
    CASE temp >= HotMin -> "hot"
      [] temp >= ModerateMin -> "moderate"
      [] OTHER -> "cold"

\* Location{Lat: lat, Lng: lon}
MakeLocation(lat, lon) == [lat |-> lat, lng |-> lon]

\* the WeatherResponse fetchForecast returns for a non-empty period list
BuildResponse(periods, lat, lon, now) ==
    LET todayPeriod == periods[SelectPeriod(periods)]
        temperature == NormalizeTemp(todayPeriod)
    IN  [location |-> MakeLocation(lat, lon),
         forecast |-> todayPeriod.shortForecast,
         temp_f |-> temperature,
         temp_type |-> getTempType(ToFloat(temperature)),
         details |-> todayPeriod.detailedForecast,
         last_updated |-> now]

\* an error value: <<>> is nil, else the message of fmt.Errorf
NoErr == <<>>
Failed(err) == [err |-> err, forecast |-> NoBody, forecastURL |-> ""]

\* fetchForecast from the return of httpClient.Do on: [err, forecast]
fetchForecastResult(reply, lat, lon, now) ==
    IF reply.neterr THEN Failed(<<"failed to fetch forecast data">>)
    ELSE IF reply.status /= StatusOK
    THEN Failed(<<"NWS forecast API returned status", reply.status>>)
    ELSE IF ~reply.body.decodable
    THEN Failed(<<"failed to decode forecast response">>)
    ELSE IF SelectPeriod(reply.body.periods) = 0
    THEN Failed(<<"no forecast periods available">>)
    ELSE [err |-> NoErr,
          forecast |-> BuildResponse(reply.body.periods, lat, lon, now),
          forecastURL |-> ""]

\* http.NewRequest fails on a URL that does not parse
BadURL == "%zz"
NewRequestFails(url) == url = BadURL

\* pointsResult without the check of the status code
pointsResultAnyStatus(reply) ==
    IF reply.neterr THEN Failed(<<"failed to fetch points data">>)
    ELSE IF ~reply.body.decodable
    THEN Failed(<<"failed to decode points response">>)
    ELSE IF reply.body.forecast = ""
    THEN Failed(<<"no forecast URL available for this location">>)
    ELSE IF NewRequestFails(reply.body.forecast)
    THEN Failed(<<"failed to create forecast request">>)
    ELSE [err |-> NoErr, forecast |-> NoBody, forecastURL |-> reply.body.forecast]

\* GetForecast from the return of httpClient.Do to the call of
\* fetchForecast, and fetchForecast to its own httpClient.Do:
\* [err, forecastURL]
pointsResult(reply) ==
    IF reply.neterr THEN Failed(<<"failed to fetch points data">>)
    ELSE IF reply.status /= StatusOK
    THEN Failed(<<"NWS points API returned status", reply.status>>)
    ELSE IF ~reply.body.decodable
    THEN Failed(<<"failed to decode points response">>)
    ELSE IF reply.body.forecast = ""
    THEN Failed(<<"no forecast URL available for this location">>)
    ELSE IF NewRequestFails(reply.body.forecast)
    THEN Failed(<<"failed to create forecast request">>)
    ELSE [err |-> NoErr, forecast |-> NoBody, forecastURL |-> reply.body.forecast]

\* encoding/json refuses NaN and infinities: nothing is written
Encodable(forecast) ==
    IsFinite(forecast.location.lat) /\ IsFinite(forecast.location.lng)

\* FinishResponse passing the error's own text to the caller
FinishResponseLeaky(result) ==
    IF result.err /= NoErr
    THEN sendError(StatusInternalServerError, "API error", result.err[1])
    ELSE [status |-> StatusOK, error |-> "", message |-> "",
          body |-> IF Encodable(result.forecast) THEN result.forecast ELSE NoBody]

\* the end of ServeHTTP, from the return of GetForecast on
FinishResponse(result) ==
    IF result.err /= NoErr
    THEN sendError(StatusInternalServerError,
                   "API error", "Could not get forecast")
    ELSE [status |-> StatusOK, error |-> "", message |-> "",
          body |-> IF Encodable(result.forecast) THEN result.forecast ELSE NoBody]

\* log.Printf("Forecast error: %v", err), when GetForecast fails
LogLines(result) ==
    IF result.err /= NoErr THEN <<result.err>> ELSE <<>>

\* ---------------------------------------------------------------- ServeHTTP
\* OutOfRange without the upper bound of the longitude
OutOfRangeNoLonMax(lat, lon) ==
    \/ FLess(lat, FromInt(-90))
    \/ FGreater(lat, FromInt(90))
    \/ FLess(lon, FromInt(-180))

\* the range check of ServeHTTP
OutOfRange(lat, lon) ==
    \/ FLess(lat, FromInt(-90))
    \/ FGreater(lat, FromInt(90))
    \/ FLess(lon, FromInt(-180))
    \/ FGreater(lon, FromInt(180))

\* a request that fails a check: no coordinates, the error response
Reject(resp) ==
    [ok |-> FALSE, lat |-> FromInt(0), lon |-> FromInt(0), resp |-> resp]

\* Checks with the parameters parsed before their presence is checked
ChecksParseFirst(q, plat, plon) ==
    IF q.method /= "GET"
    THEN Reject(sendError(StatusMethodNotAllowed,
                          "Method not allowed", "Only GET supported"))
    ELSE IF q.latStr /= <<>> /\ plat.err
    THEN Reject(sendError(StatusBadRequest, "Bad latitude", "Must be a number"))
    ELSE IF q.lonStr /= <<>> /\ plon.err
    THEN Reject(sendError(StatusBadRequest, "Bad longitude", "Must be a number"))
    ELSE IF q.latStr = <<>> \/ q.lonStr = <<>>
    THEN Reject(sendError(StatusBadRequest,
                          "Missing coords", "Need both lat and lon params"))
    ELSE IF OutOfRange(plat.val, plon.val)
    THEN Reject(sendError(StatusBadRequest,
                          "Invalid coords", "Check your lat/lon values"))
    ELSE [ok |-> TRUE, lat |-> plat.val, lon |-> plon.val, resp |-> NoBody]

ValidateParseFirst(q) ==
    ChecksParseFirst(q, ParseFloat(q.latStr), ParseFloat(q.lonStr))

\* the checks of ServeHTTP in their order; plat and plon are what
\* strconv.ParseFloat returns for latStr and lonStr, looked at only after
\* the checks before them have passed
Checks(q, plat, plon) ==
    IF q.method /= "GET"
    THEN Reject(sendError(StatusMethodNotAllowed,
                          "Method not allowed", "Only GET supported"))
    ELSE IF q.latStr = <<>> \/ q.lonStr = <<>>
    THEN Reject(sendError(StatusBadRequest,
                          "Missing coords", "Need both lat and lon params"))
    ELSE IF plat.err
    THEN Reject(sendError(StatusBadRequest, "Bad latitude", "Must be a number"))
    ELSE IF plon.err
    THEN Reject(sendError(StatusBadRequest, "Bad longitude", "Must be a number"))
    ELSE IF OutOfRange(plat.val, plon.val)
    THEN Reject(sendError(StatusBadRequest,
                          "Invalid coords", "Check your lat/lon values"))
    ELSE [ok |-> TRUE, lat |-> plat.val, lon |-> plon.val, resp |-> NoBody]

\* the checks of ServeHTTP before GetForecast: [ok, lat, lon, resp]
Validate(q) == Checks(q, ParseFloat(q.latStr), ParseFloat(q.lonStr))

\* fmt.Sprintf("https://api.weather.gov/points/%.4f,%.4f", lat, lon)
PointsCall(lat, lon) ==
    [kind |-> "points",
     url |-> <<"https://api.weather.gov/points/">> \o Fmt4(lat)
               \o <<",">> \o Fmt4(lon)]

ForecastCall(forecastURL) == [kind |-> "forecast", url |-> forecastURL]

\* ------------------------------------------------------------------- state
VARIABLES
    pc,       \* pc[r]: where request r is: idle, points, forecast, done
    req,      \* req[r]: the request as received: method, lat and lon text
    lat,      \* lat[r], lon[r]: ServeHTTP's locals after parsing
    lon,
    gfArgs,   \* gfArgs[r]: the arguments of each GetForecast invocation
    calls,    \* calls[r]: the upstream calls issued for r, in order
    sent,     \* sent[r]: the upstream's replies to r's calls, in order
    net,      \* upstream replies on their way back to httpClient.Do
    resp,     \* resp[r]: the responses written for r, in order
    logged,   \* logged[r]: the errors logged for r, in order
    probe     \* a value given to getTempType and its result

vars == <<pc, req, lat, lon, gfArgs, calls, sent, net, resp, logged, probe>>

Requests == 1..NumRequests

\* ------------------------------------------------------------------ inputs
Methods == {"GET", "POST"}
AllRequests ==
    [method : Methods, latStr : LatTexts, lonStr : LonTexts]

\* the requests of the concurrent runs: distinct coordinates, one out of range
ConcRequests ==
    [method : {"GET"}, latStr : {Txt10, Txt20, Txt91}, lonStr : {TxtMinus74}]

NoRequest == [method |-> "", latStr |-> <<>>, lonStr |-> <<>>]

Period(name, isDaytime, temperature, unit, short, detailed) ==
    [name |-> name, isDaytime |-> isDaytime, temperature |-> temperature,
     temperatureUnit |-> unit, shortForecast |-> short,
     detailedForecast |-> detailed]

NameToday == <<"T","o","d","a","y">>
NameLateToday == <<"L","a","t","e"," ","T","O","D","A","Y">>
NameTonight == <<"T","o","n","i","g","h","t">>
NameMonday == <<"M","o","n","d","a","y">>

\* what the upstream can answer: a transport error, or a status and a body;
\* a body is undecodable, or JSON whose absent fields decode to zero values
Body(decodable, forecast, periods) ==
    [decodable |-> decodable, forecast |-> forecast, periods |-> periods]
NetErr == [neterr |-> TRUE, status |-> 0, body |-> Body(FALSE, "", <<>>)]
Http(status, body) == [neterr |-> FALSE, status |-> status, body |-> body]

URL1 == "https://api.weather.gov/gridpoints/A/1,1/forecast"
URL2 == "https://api.weather.gov/gridpoints/B/2,2/forecast"

PointsReplies ==
    {NetErr,
     Http(500, Body(FALSE, "", <<>>)),
     Http(404, Body(TRUE, URL1, <<>>)),
     Http(StatusOK, Body(FALSE, "", <<>>)),
     Http(StatusOK, Body(TRUE, "", <<>>)),
     Http(StatusOK, Body(TRUE, BadURL, <<>>)),
     Http(StatusOK, Body(TRUE, URL1, <<>>)),
     Http(StatusOK, Body(TRUE, URL2, <<>>))}

ListNight == <<Period(NameTonight, FALSE, 55, "F", "Clear", "")>>
ListDayToday ==
    <<Period(NameMonday, TRUE, 20, "C", "Sunny", "Sunny, high near 20"),
      Period(NameToday, TRUE, 91, "F", "Hot", "")>>

ForecastReplies ==
    {NetErr,
     Http(503, Body(TRUE, "", ListNight)),
     Http(StatusOK, Body(FALSE, "", <<>>)),
     Http(StatusOK, Body(TRUE, "", <<>>)),
     Http(StatusOK, Body(TRUE, "", ListNight)),
     Http(StatusOK, Body(TRUE, "", ListDayToday))}

\* the replies of the concurrent runs
ConcPointsReplies ==
    {Http(500, Body(FALSE, "", <<>>)),
     Http(StatusOK, Body(TRUE, URL1, <<>>)),
     Http(StatusOK, Body(TRUE, URL2, <<>>))}
ConcForecastReplies ==
    {NetErr,
     Http(StatusOK, Body(TRUE, "", ListNight)),
     Http(StatusOK, Body(TRUE, "", ListDayToday))}

\* period lists for fetchForecast alone: every list of up to MaxPeriods
\* periods over these names and both values of isDaytime, the periods of a
\* list told apart by temperature and text; and every one-period list over
\* the temperatures and units
PeriodNames == {NameToday, NameLateToday, NameTonight, NameMonday}
ShortTexts == <<"Sunny", "Cloudy", "Rain", "Snow", "Fog">>
SelectionLists ==
    UNION {
      { [i \in 1..n |-> Period(ks[i][1], ks[i][2], 45 + 15 * i, "F",
                               ShortTexts[((i - 1) % 5) + 1], "")]
          : ks \in [1..n -> PeriodNames \X BOOLEAN] }
      : n \in 0..MaxPeriods }
TemperatureLists ==
    { <<Period(NameMonday, TRUE, t, u, "Sunny", "Details")>>
        : t \in (0 - MaxAbsTemp)..MaxAbsTemp, u \in {"C", "F", "c"} }
FetchReplies ==
    { Http(StatusOK, Body(TRUE, "", ps)) : ps \in SelectionLists \cup TemperatureLists }

\* the wall clock at the time of the response
Times == {1, 2}
ConcTimes == {1}

\* temperatures for getTempType, in ten-thousandths of a degree
ProbeTemps ==
    {HotMin, HotMin - 1, HotMin + 1, ModerateMin, ModerateMin - 1, ModerateMin + 1,
     0, 0 - 400000, 750000, 1300000, 900000, 600000}

\* -------------------------------------------------------------------- Init
Init ==
    /\ pc = [r \in Requests |-> "idle"]
    /\ req = [r \in Requests |-> NoRequest]
    /\ lat = [r \in Requests |-> FromInt(0)]
    /\ lon = [r \in Requests |-> FromInt(0)]
    /\ gfArgs = [r \in Requests |-> <<>>]
    /\ calls = [r \in Requests |-> <<>>]
    /\ sent = [r \in Requests |-> <<>>]
    /\ net = {}
    /\ resp = [r \in Requests |-> <<>>]
    /\ logged = [r \in Requests |-> <<>>]
    /\ probe = [temp |-> 0, type |-> "none"]

\* ----------------------------------------------------------------- actions
\* httpClient.Do handing a request whatever reply has come in
DoReturnAny(r) == net

\* httpClient.Do returns to request r the reply to the call r sent
DoReturn(r) == {m \in net : m.conn = r}

\* ServeHTTP from its start to its first wait: a rejected request is
\* answered, an accepted one enters GetForecast, which sends the points call
ServeHTTP(r, inputs) ==
    /\ pc[r] = "idle"
    /\ \E q \in inputs :
         LET v == Validate(q)
         IN  /\ req' = [req EXCEPT ![r] = q]
             /\ IF v.ok
                THEN /\ lat' = [lat EXCEPT ![r] = v.lat]
                     /\ lon' = [lon EXCEPT ![r] = v.lon]
                     /\ gfArgs' = [gfArgs EXCEPT ![r] = Append(@, <<v.lat, v.lon>>)]
                     /\ calls' = [calls EXCEPT ![r] = Append(@, PointsCall(v.lat, v.lon))]
                     /\ pc' = [pc EXCEPT ![r] = "points"]
                     /\ resp' = resp
                ELSE /\ resp' = [resp EXCEPT ![r] = Append(@, v.resp)]
                     /\ pc' = [pc EXCEPT ![r] = "done"]
                     /\ UNCHANGED <<lat, lon, gfArgs, calls>>
    /\ UNCHANGED <<sent, net, logged, probe>>

\* the upstream answers the outstanding call of request r
UpstreamRespond(r, pointsReplies, forecastReplies) ==
    /\ pc[r] \in {"points", "forecast"}
    /\ Len(sent[r]) < Len(calls[r])
    /\ \E reply \in (IF calls[r][Len(calls[r])].kind = "points"
                     THEN pointsReplies ELSE forecastReplies) :
         /\ sent' = [sent EXCEPT ![r] = Append(@, reply)]
         /\ net' = net \cup {[conn |-> r, reply |-> reply]}
    /\ UNCHANGED <<pc, req, lat, lon, gfArgs, calls, resp, logged, probe>>

\* GetForecast from the return of the points call: a failure ends the
\* request with the 500 of ServeHTTP, a forecast URL starts fetchForecast,
\* which sends the forecast call
PointsReturn(r) ==
    /\ pc[r] = "points"
    /\ \E m \in DoReturn(r) :
         LET result == pointsResult(m.reply)
         IN  /\ net' = net \ {m}
             /\ IF result.err /= NoErr
                THEN /\ logged' = [logged EXCEPT ![r] = @ \o LogLines(result)]
                     /\ resp' = [resp EXCEPT ![r] = Append(@, FinishResponse(result))]
                     /\ pc' = [pc EXCEPT ![r] = "done"]
                     /\ calls' = calls
                ELSE /\ calls' = [calls EXCEPT ![r] =
                                     Append(@, ForecastCall(result.forecastURL))]
                     /\ pc' = [pc EXCEPT ![r] = "forecast"]
                     /\ UNCHANGED <<resp, logged>>
    /\ UNCHANGED <<req, lat, lon, gfArgs, sent, probe>>

\* fetchForecast from the return of the forecast call, and the end of
\* ServeHTTP
ForecastReturn(r, times) ==
    /\ pc[r] = "forecast"
    /\ \E m \in DoReturn(r), now \in times :
         LET result == fetchForecastResult(m.reply, lat[r], lon[r], now)
         IN  /\ net' = net \ {m}
             /\ logged' = [logged EXCEPT ![r] = @ \o LogLines(result)]
             /\ resp' = [resp EXCEPT ![r] = Append(@, FinishResponse(result))]
             /\ pc' = [pc EXCEPT ![r] = "done"]
    /\ UNCHANGED <<req, lat, lon, gfArgs, calls, sent, probe>>

\* getTempType applied to a temperature
Classify ==
    /\ probe.type = "none"
    /\ \E t \in ProbeTemps : probe' = [temp |-> t, type |-> getTempType(t)]
    /\ UNCHANGED <<pc, req, lat, lon, gfArgs, calls, sent, net, resp, logged>>

\* ---------------------------------------------------------- specifications
\* one request, every input
Next ==
    \/ ServeHTTP(1, AllRequests)
    \/ UpstreamRespond(1, PointsReplies, ForecastReplies)
    \/ PointsReturn(1)
    \/ ForecastReturn(1, Times)

Spec == Init /\ [][Next]_vars

\* NumRequests requests in flight at once
NextConc ==
    \E r \in Requests :
        \/ ServeHTTP(r, ConcRequests)
        \/ UpstreamRespond(r, ConcPointsReplies, ConcForecastReplies)
        \/ PointsReturn(r)
        \/ ForecastReturn(r, ConcTimes)

SpecConc == Init /\ [][NextConc]_vars

\* fetchForecast alone: request 1 has passed the points step and waits for
\* the forecast; the upstream answers with any period list
FetchRequest == [method |-> "GET", latStr |-> Txt40, lonStr |-> TxtMinus74]
FetchPointsReply == Http(StatusOK, Body(TRUE, URL1, <<>>))

InitFetch ==
    LET v == Validate(FetchRequest)
        at1(x, zero) == [r \in Requests |-> IF r = 1 THEN x ELSE zero]
    IN  /\ pc = at1("forecast", "idle")
        /\ req = at1(FetchRequest, NoRequest)
        /\ lat = at1(v.lat, FromInt(0))
        /\ lon = at1(v.lon, FromInt(0))
        /\ gfArgs = at1(<< <<v.lat, v.lon>> >>, <<>>)
        /\ calls = at1(<<PointsCall(v.lat, v.lon), ForecastCall(URL1)>>, <<>>)
        /\ sent = at1(<<FetchPointsReply>>, <<>>)
        /\ net = {}
        /\ resp = at1(<<>>, <<>>)
        /\ logged = at1(<<>>, <<>>)
        /\ probe = [temp |-> 0, type |-> "none"]

NextFetch ==
    \/ UpstreamRespond(1, {}, FetchReplies)
    \/ ForecastReturn(1, Times)
    \/ Classify

SpecFetch == InitFetch /\ [][NextFetch]_vars

\* ================================================================== claims
Answered(r) == pc[r] = "done" /\ Len(resp[r]) >= 1
Response(r) == resp[r][1]
Succeeded(r) ==
    Answered(r) /\ Response(r).status = StatusOK /\ Response(r).body /= NoBody

\* the upstream answered with status 200 and a body that decodes
GoodReply(reply) ==
    ~reply.neterr /\ reply.status = StatusOK /\ reply.body.decodable

\* the period list the upstream sent for the forecast call of request r
PeriodsSent(r) == sent[r][2].body.periods
ForecastStepDone(r) == Answered(r) /\ Len(sent[r]) = 2 /\ GoodReply(sent[r][2])

IsTodayNamed(p) == Contains(ToLower(p.name), <<"t","o","d","a","y">>)

\* the response body carries the texts and the temperature of period p
BuiltFrom(body, p) ==
    /\ body.forecast = p.shortForecast
    /\ body.details = p.detailedForecast
    /\ (p.temperatureUnit /= "C" => body.temp_f = p.temperature)

FirstIndex(ps, P(_)) == CHOOSE i \in 1..Len(ps) : P(ps[i]) /\ \A k \in 1..(i - 1) : ~P(ps[k])

\* C1: when the period list holds a "today"-named period and, before it, a
\* daytime period whose name does not contain "today", the response is built
\* from the (first) "today"-named period.
C1_TodayBeatsEarlierDaytime ==
    \A r \in Requests :
      (ForecastStepDone(r) /\ Succeeded(r)) =>
        LET ps == PeriodsSent(r)
        IN  \A j \in 1..Len(ps) :
              ( /\ IsTodayNamed(ps[j])
                /\ \A k \in 1..(j - 1) : ~IsTodayNamed(ps[k])
                /\ \E i \in 1..(j - 1) : ps[i].isDaytime )
              => BuiltFrom(Response(r).body, ps[j])

\* C1, what the code does: the scan stops at the first period that is
\* "today"-named or daytime, so that period is the one the response is
\* built from.
C1_FirstTodayOrDaytimeWins ==
    \A r \in Requests :
      (ForecastStepDone(r) /\ Succeeded(r)) =>
        LET ps == PeriodsSent(r)
            hit(p) == IsTodayNamed(p) \/ p.isDaytime
        IN  (\E i \in 1..Len(ps) : hit(ps[i]))
              => BuiltFrom(Response(r).body, ps[FirstIndex(ps, hit)])

\* n/d rounded to the nearest integer (d > 0, halves up)
RoundNearest(n, d) == (2 * n + d) \div (2 * d)

\* C2: a selected period in unit "C" gives temp_f = C*9/5+32 rounded to the
\* nearest integer; any other unit gives temp_f = the period's temperature.
C2_CelsiusRoundedToNearest ==
    \A r \in Requests :
      (ForecastStepDone(r) /\ Succeeded(r)) =>
        LET p == PeriodsSent(r)[SelectPeriod(PeriodsSent(r))]
        IN  Response(r).body.temp_f =
              IF p.temperatureUnit = "C"
              THEN RoundNearest(p.temperature * 9 + 160, 5)
              ELSE p.temperature

\* a parameter the claim calls a finite decimal number
FiniteDecimal(s) == ~ParseFloat(s).err /\ IsFinite(ParseFloat(s).val)
BothPresent(q) == q.method = "GET" /\ q.latStr /= <<>> /\ q.lonStr /= <<>>
ErrorIs(r, status, error) ==
    /\ Answered(r)
    /\ Response(r).status = status
    /\ Response(r).error = error
    /\ Response(r).body = NoBody

\* C3: with lat and lon both present, a lat that is not a finite decimal
\* number is answered 400 "Bad latitude", such a lon 400 "Bad longitude",
\* and GetForecast is never invoked with a non-finite argument.
C3_NonFiniteRejected ==
    \A r \in Requests :
      (pc[r] /= "idle" /\ BothPresent(req[r])) =>
        /\ ~FiniteDecimal(req[r].latStr)
             => ErrorIs(r, StatusBadRequest, "Bad latitude")
        /\ (FiniteDecimal(req[r].latStr) /\ ~FiniteDecimal(req[r].lonStr))
             => ErrorIs(r, StatusBadRequest, "Bad longitude")
        /\ \A i \in 1..Len(gfArgs[r]) :
             IsFinite(gfArgs[r][i][1]) /\ IsFinite(gfArgs[r][i][2])

\* the parameter parses to a value below lo or above hi
Outside(s, lo, hi) ==
    /\ ~ParseFloat(s).err
    /\ \/ FLess(ParseFloat(s).val, FromInt(lo))
       \/ FGreater(ParseFloat(s).val, FromInt(hi))

\* C4: a GET request whose latitude is outside [-90, 90] or whose longitude
\* is outside [-180, 180] is answered with a 400 error, and neither
\* GetForecast nor any upstream call happens for it.
C4_OutOfRangeRejected ==
    \A r \in Requests :
      ( /\ pc[r] /= "idle"
        /\ req[r].method = "GET"
        /\ Outside(req[r].latStr, -90, 90) \/ Outside(req[r].lonStr, -180, 180) )
      => /\ Answered(r)
         /\ Response(r).status = StatusBadRequest
         /\ Response(r).body = NoBody
         /\ Response(r).error /= ""
         /\ gfArgs[r] = <<>>
         /\ calls[r] = <<>>
         /\ sent[r] = <<>>

C4_Witness ==
    /\ req[1].method = "GET"
    /\ req[1].latStr = Txt90Plus
    /\ req[1].lonStr = TxtMinus74
    /\ ErrorIs(1, StatusBadRequest, "Invalid coords")
    /\ calls[1] = <<>>

\* the one response of every resolution failure
GenericFailure ==
    [status |-> 500, error |-> "API error",
     message |-> "Could not get forecast", body |-> NoBody]

\* the failures the claim lists, of a reply at the points step
PointsStepFailed(reply) ==
    reply.neterr \/ reply.status /= 200 \/ ~reply.body.decodable
      \/ reply.body.forecast = ""
ForecastStepFailed(reply) ==
    reply.neterr \/ reply.status /= 200 \/ ~reply.body.decodable
      \/ reply.body.periods = <<>>

\* C5: whatever step of the resolution fails and however, the caller gets
\* the same response: 500, "API error", "Could not get forecast".
C5_FailuresMasked ==
    \A r \in Requests :
      (Answered(r) /\ gfArgs[r] /= <<>>) =>
        /\ (Len(sent[r]) = 1 /\ PointsStepFailed(sent[r][1]))
             => resp[r] = <<GenericFailure>>
        /\ (Len(sent[r]) = 2 /\ ForecastStepFailed(sent[r][2]))
             => resp[r] = <<GenericFailure>>
        /\ Response(r).status /= StatusOK => resp[r] = <<GenericFailure>>
        /\ (Response(r).status /= StatusOK) = (logged[r] /= <<>>)

C5_Witness ==
    /\ Answered(1)
    /\ Len(sent[1]) = 2
    /\ GoodReply(sent[1][2])
    /\ sent[1][2].body.periods = <<>>
    /\ resp[1] = <<GenericFailure>>
    /\ logged[1] = << <<"no forecast periods available">> >>

\* the bucket of a temperature in ten-thousandths of a degree
BucketIs(t, type) ==
    /\ t >= 895000 => type = "hot"
    /\ (t >= 608000 /\ t < 895000) => type = "moderate"
    /\ t < 608000 => type = "cold"

\* C6: getTempType gives "hot" from 89.5 up, "moderate" from 60.8 up to
\* below 89.5, "cold" below 60.8, and the temp_type of a successful
\* response is the bucket of its temp_f.
C6_Buckets ==
    /\ probe.type /= "none" => BucketIs(probe.temp, probe.type)
    /\ \A r \in Requests :
         Succeeded(r) =>
           BucketIs(Response(r).body.temp_f * 10000, Response(r).body.temp_type)

C6_Witness ==
    /\ probe = [temp |-> 895000, type |-> "hot"]
    /\ Succeeded(1)
    /\ Response(1).body.temp_f = 60
    /\ Response(1).body.temp_type = "cold"

\* C7: when no name contains "today" the response is built from the first
\* daytime period if there is one, else from the first period; an empty
\* list fails with "no forecast periods available" and yields no forecast.
C7_Fallbacks ==
    \A r \in Requests :
      ForecastStepDone(r) =>
        LET ps == PeriodsSent(r)
            daytime(p) == p.isDaytime
        IN  /\ ps = <<>> =>
                 /\ ~Succeeded(r)
                 /\ logged[r] = << <<"no forecast periods available">> >>
            /\ (ps /= <<>> /\ \A i \in 1..Len(ps) : ~IsTodayNamed(ps[i])) =>
                 /\ Succeeded(r)
                 /\ IF \E i \in 1..Len(ps) : ps[i].isDaytime
                    THEN BuiltFrom(Response(r).body, ps[FirstIndex(ps, daytime)])
                    ELSE BuiltFrom(Response(r).body, ps[1])

C7_Witness ==
    /\ ForecastStepDone(1)
    /\ Len(PeriodsSent(1)) = 3
    /\ \A i \in 1..3 : ~IsTodayNamed(PeriodsSent(1)[i])
    /\ ~PeriodsSent(1)[1].isDaytime
    /\ PeriodsSent(1)[2].isDaytime
    /\ PeriodsSent(1)[3].isDaytime
    /\ Succeeded(1)
    /\ Response(1).body.forecast = PeriodsSent(1)[2].shortForecast
    /\ Response(1).body.temp_f = PeriodsSent(1)[2].temperature

\* the response that the request and the upstream's replies to its own
\* calls determine, the clock reading t
OwnOutcome(r, t) ==
    LET v == Validate(req[r])
    IN  IF ~v.ok THEN v.resp
        ELSE IF Len(sent[r]) = 0 THEN NoBody
        ELSE IF pointsResult(sent[r][1]).err /= NoErr THEN GenericFailure
        ELSE IF Len(sent[r]) = 1 THEN NoBody
        ELSE FinishResponse(fetchForecastResult(sent[r][2], v.lat, v.lon, t))

\* C8: with several requests in flight, every response is the one the
\* request's own parameters and the upstream's replies to its own calls
\* determine: the location is its own lat/lon, the forecast comes from its
\* own forecast reply, and its status does not depend on the others.
C8_NoInterference ==
    \A r \in Requests :
      Answered(r) =>
        /\ Len(resp[r]) = 1
        /\ Response(r) =
             OwnOutcome(r, IF Succeeded(r) THEN Response(r).body.last_updated ELSE 1)
        /\ Succeeded(r) =>
             /\ Response(r).body.location =
                  [lat |-> ParseFloat(req[r].latStr).val,
                   lng |-> ParseFloat(req[r].lonStr).val]
             /\ Len(sent[r]) = 2
             /\ \E i \in 1..Len(sent[r][2].body.periods) :
                  BuiltFrom(Response(r).body, sent[r][2].body.periods[i])

\* request 1 is answered while request 2, for other coordinates and with
\* another forecast URL, is still waiting for a reply that is on its way;
\* or both are answered, one of them with an error
C8_Witness ==
    /\ Succeeded(1)
    /\ req[1].latStr = Txt10
    /\ Response(1).body.location.lat = FromInt(10)
    /\ Response(1).body.forecast = "Clear"
    /\ req[2].latStr = Txt20
    /\ pc[2] = "forecast"
    /\ calls[2][2].url /= calls[1][2].url
    /\ \E m \in net : m.conn = 2 /\ m.reply = NetErr

CallsOfKind(r, kind) == {i \in 1..Len(calls[r]) : calls[r][i].kind = kind}

\* C9: a request makes at most one points call and at most one forecast
\* call; the forecast call follows a points reply of status 200 with a
\* decodable body and a non-empty forecast URL, and goes to that URL; no
\* call follows a failure; a 200 response follows two successful calls.
C9_CallSequence ==
    \A r \in Requests :
      /\ Cardinality(CallsOfKind(r, "points")) <= 1
      /\ Cardinality(CallsOfKind(r, "forecast")) <= 1
      /\ Len(sent[r]) <= Len(calls[r])
      /\ Len(calls[r]) >= 1 => calls[r][1].kind = "points"
      /\ Len(calls[r]) >= 2 =>
           /\ calls[r][2].kind = "forecast"
           /\ Len(sent[r]) >= 1
           /\ GoodReply(sent[r][1])
           /\ sent[r][1].body.forecast /= ""
           /\ calls[r][2].url = sent[r][1].body.forecast
      /\ (Len(sent[r]) >= 1 /\ PointsStepFailed(sent[r][1])) => Len(calls[r]) = 1
      /\ Answered(r) => Len(sent[r]) = Len(calls[r])
      /\ (Answered(r) /\ Response(r).status = StatusOK) =>
           /\ Len(calls[r]) = 2
           /\ GoodReply(sent[r][1])
           /\ GoodReply(sent[r][2])
           /\ sent[r][2].body.periods /= <<>>

C9_Witness ==
    /\ Succeeded(1)
    /\ calls[1] = <<PointsCall(lat[1], lon[1]), ForecastCall(URL2)>>
    /\ sent[1][1].body.forecast = URL2
    /\ req[1].latStr = Txt40
    /\ calls[1][1].url =
         <<"https://api.weather.gov/points/", "4","0",".","7","1","2","8",
           ",", "-","7","4",".","0","0","6","0">>

\* C10: the first failing check decides the response, in the order method,
\* presence, latitude parse, longitude parse, range; a non-GET method gets
\* 405 whatever the parameters, a missing lat or lon gets "Missing coords"
\* whatever the other parameter, and a request has exactly one response.
C10_CheckOrder ==
    \A r \in Requests :
      /\ Len(resp[r]) = (IF pc[r] = "done" THEN 1 ELSE 0)
      /\ pc[r] /= "idle" =>
           LET q == req[r]
               latErr == ParseFloat(q.latStr).err
               lonErr == ParseFloat(q.lonStr).err
           IN  /\ q.method /= "GET"
                    => ErrorIs(r, StatusMethodNotAllowed, "Method not allowed")
               /\ (q.method = "GET" /\ (q.latStr = <<>> \/ q.lonStr = <<>>))
                    => ErrorIs(r, StatusBadRequest, "Missing coords")
               /\ (BothPresent(q) /\ latErr)
                    => ErrorIs(r, StatusBadRequest, "Bad latitude")
               /\ (BothPresent(q) /\ ~latErr /\ lonErr)
                    => ErrorIs(r, StatusBadRequest, "Bad longitude")
               /\ (BothPresent(q) /\ ~latErr /\ ~lonErr
                     /\ (Outside(q.latStr, -90, 90) \/ Outside(q.lonStr, -180, 180)))
                    => ErrorIs(r, StatusBadRequest, "Invalid coords")
               /\ (BothPresent(q) /\ ~latErr /\ ~lonErr
                     /\ ~Outside(q.latStr, -90, 90) /\ ~Outside(q.lonStr, -180, 180))
                    => gfArgs[r] /= <<>>

\* a missing lon with an unparsable lat: presence is checked before parsing
C10_Witness ==
    /\ req[1] = [method |-> "GET", latStr |-> TxtAbc, lonStr |-> TxtEmpty]
    /\ resp[1] = <<sendError(400, "Missing coords", "Need both lat and lon params")>>

====
